---- MODULE Spec2Model ----
(***************************************************************************)
(* Model of mega_lottery_analysis.py: the MegaLotteryAnalyzer object, its  *)
(* data source (HTTP fetch or built-in sample), its analysis methods and   *)
(* the main() pipeline that drives them.                                   *)
(***************************************************************************)
EXTENDS Integers, Sequences, FiniteSets, TLC

VARIABLES
    pc,            \* "client": methods are called in any order by a caller;
                   \* otherwise the position of main()
    recent_draws,  \* self.recent_draws
    op,            \* the method called last
    arg,           \* its argument (the HTTP outcome for a fetch)
    ret,           \* the value it returned
    out,           \* what it printed
    raised,        \* whether an exception left it
    fetched,       \* main(): what its call of fetch_recent_draws returned
    loaded         \* history: the draws as the last successful fetch or the
                   \* sample generator stored them

vars == <<pc, recent_draws, op, arg, ret, out, raised, fetched, loaded>>

(***************************************************************************)
(* Bounds and program constants                                            *)
(***************************************************************************)
\* longest 'content' list an HTTP response carries in the model
MaxDraws == 2
\* longest leading part of a frequency table passed on its own to
\* find_hot_cold_numbers
MaxPart == 4

\* magnitude threshold: n <= 25 is low, n > 25 is high
LowMax == 25
\* size of the hot and of the cold list
HotColdSize == 5
\* number of hot / cold entries the advice prints
AdviceSize == 3
\* half-width of the suggested sum range
SumMargin == 10

(***************************************************************************)
(* Python values                                                           *)
(***************************************************************************)
None == [type |-> "None"]

Tuple(items) == [type |-> "tuple", items |-> items]

\* a list comprehension, evaluated to a list
List(f) == SubSeq(f, 1, Len(f))

\* dict.get(key, default)
Get(d, key, default) == IF key \in DOMAIN d THEN d[key] ELSE default

Bool(b) == [type |-> "bool", value |-> b]

\* truthiness of a list or table ("if not xs" is its negation)
Truthy(xs) == xs # <<>>

\* "a, b = v": succeeds only on a 2-tuple, raises TypeError otherwise
UnpackRaises(v) == IF v.type = "tuple" THEN Len(v.items) # 2 ELSE TRUE

\* numbers of a draw: draw.get('winningNumbers', {}).get('list', [])
NumbersOf(draw) == Get(Get(draw, "winningNumbers", [x \in {} |-> 0]), "list", <<>>)

\* bonus numbers of a draw: draw.get('bonus', [])
BonusOf(draw) == Get(draw, "bonus", <<>>)

RECURSIVE Sum(_)
Sum(s) == IF s = <<>> THEN 0 ELSE Head(s) + Sum(Tail(s))

\* list.extend over all draws
RECURSIVE Flatten(_)
Flatten(ss) == IF ss = <<>> THEN <<>> ELSE Head(ss) \o Flatten(Tail(ss))

\* sorted(s, key=...): the elements of s in ascending order of their keys
\* (keys[i] is the key of s[i]), elements of equal key keeping the order
\* they have in s
StableSort(s, keys) ==
    LET rank == List([i \in 1..Len(s) |->
                    1 + Cardinality({j \in 1..Len(s) :
                            \/ keys[j] < keys[i]
                            \/ keys[j] = keys[i] /\ j < i})])
    IN  List([r \in 1..Len(s) |-> s[CHOOSE i \in 1..Len(s) : rank[i] = r]])

\* sorted(numbers): a new ascending list
Sorted(s) == StableSort(s, s)

\* a counter that records which values occur, not how often
CounterOfPresence(s) ==
    LET firsts == SelectSeq(List([i \in 1..Len(s) |-> i]),
                            LAMBDA i : \A j \in 1..(i - 1) : s[j] # s[i])
    IN  List([k \in 1..Len(firsts) |-> <<s[firsts[k]], 1>>])

\* Counter(s): <<value, count>> entries in order of first occurrence
Counter(s) ==
    LET firsts == SelectSeq(List([i \in 1..Len(s) |-> i]),
                            LAMBDA i : \A j \in 1..(i - 1) : s[j] # s[i])
    IN  List([k \in 1..Len(firsts) |->
                <<s[firsts[k]], Cardinality({j \in 1..Len(s) : s[j] = s[firsts[k]]})>>])

\* the sort without reverse=True
SortByCountAsc(t) == StableSort(t, List([i \in 1..Len(t) |-> t[i][2]]))

\* sorted(items, key=count, reverse=True): descending counts, and reverse
\* keeps the original order of entries of equal count
SortByCountDesc(t) == StableSort(t, List([i \in 1..Len(t) |-> 0 - t[i][2]]))

\* s[:n]
FirstN(s, n) == SubSeq(s, 1, IF Len(s) < n THEN Len(s) ELSE n)

\* s[-n:]
LastN(s, n) == SubSeq(s, (IF Len(s) < n THEN 0 ELSE Len(s) - n) + 1, Len(s))

\* Counter.most_common(1)[0]: the first entry of highest count
MostCommon(t) == Head(SortByCountDesc(t))

\* f"{a}:{b}"
Ratio(a, b) == ToString(a) \o ":" \o ToString(b)

\* rounding down instead of towards zero
FloorDiv(p, q) == p \div q

\* int(p/q) for q > 0: truncation towards zero
TruncDiv(p, q) == IF p >= 0 THEN p \div q ELSE -((-p) \div q)

(***************************************************************************)
(* Data                                                                    *)
(***************************************************************************)
Draw(id, numbers, bonus, time) ==
    [drawId |-> id, winningNumbers |-> [list |-> numbers], bonus |-> bonus,
     drawTime |-> time]

\* the built-in demonstration draws
sample_draws == <<
    Draw(1001, <<3, 12, 25, 38, 45>>, <<7>>, "2024-01-15T20:00:00"),
    Draw(1002, <<8, 19, 27, 33, 41>>, <<12>>, "2024-01-16T20:00:00"),
    Draw(1003, <<5, 16, 22, 35, 44>>, <<9>>, "2024-01-17T20:00:00"),
    Draw(1004, <<11, 18, 29, 36, 42>>, <<6>>, "2024-01-18T20:00:00"),
    Draw(1005, <<2, 14, 23, 31, 39>>, <<15>>, "2024-01-19T20:00:00"),
    Draw(1006, <<7, 17, 26, 34, 43>>, <<11>>, "2024-01-20T20:00:00"),
    Draw(1007, <<9, 20, 28, 37, 46>>, <<4>>, "2024-01-21T20:00:00"),
    Draw(1008, <<4, 13, 21, 32, 40>>, <<8>>, "2024-01-22T20:00:00"),
    Draw(1009, <<6, 15, 24, 30, 38>>, <<13>>, "2024-01-23T20:00:00"),
    Draw(1010, <<10, 19, 25, 33, 41>>, <<5>>, "2024-01-24T20:00:00") >>

\* draw objects a response body can carry: well-formed draws (sorted or
\* not, with one or two bonus numbers), a draw with a single main number
\* and no 'bonus', and an object with none of the expected keys
DrawPool == {
    Draw(1001, <<3, 12, 25, 38, 45>>, <<7>>, "2024-01-15T20:00:00"),
    Draw(2001, <<26, 4, 3, 45, 25>>, <<7>>, "2024-02-01T20:00:00"),
    Draw(2002, <<8, 19, 27, 33, 41>>, <<12, 4>>, "2024-02-02T20:00:00"),
    [drawId |-> 2003, winningNumbers |-> [list |-> <<3>>]],
    [drawTime |-> "2024-02-04T20:00:00"] }

RECURSIVE SeqsUpTo(_, _)
SeqsUpTo(S, n) ==
    IF n = 0 THEN {<<>>}
    ELSE LET shorter == SeqsUpTo(S, n - 1)
         IN  shorter \cup {Append(s, x) : s \in shorter, x \in S}

\* the 'content' lists of the modelled responses
Contents == SeqsUpTo(DrawPool, MaxDraws)

\* answers of the endpoint: a non-200 status, a 200 with a body that is not
\* JSON, a 200 with a JSON object without 'content', a 200 with 'content'
Answers ==
    {[kind |-> k] : k \in {"status", "badjson", "nocontent"}}
    \cup {[kind |-> "ok", content |-> c] : c \in Contents}

\* requests that never get an answer
Failures == {[kind |-> k] : k \in {"exception", "timeout"}}

\* outcomes of requests.get(...) followed by response.json()
Responses == Answers \cup Failures

(***************************************************************************)
(* Methods of MegaLotteryAnalyzer.  A method applied to the loaded draws   *)
(* yields its effect: the draws it leaves in recent_draws, the value it    *)
(* returns, what it prints and whether an exception leaves it.             *)
(***************************************************************************)
IsOdd(n) == n % 2 = 1
IsEven(n) == n % 2 = 0
IsLow(n) == n <= LowMax
IsHigh(n) == n > LowMax

\* numbers[i+1] - numbers[i] for all adjacent pairs
Gaps(numbers) ==
    List([i \in 1..(IF Len(numbers) = 0 THEN 0 ELSE Len(numbers) - 1)
            |-> numbers[i + 1] - numbers[i]])

IsOne(g) == g = 1

\* the loop body without the sort of the numbers
DrawPatternUnsorted(draw) ==
    LET numbers == NumbersOf(draw)
    IN  [odd_even   |-> Ratio(Len(SelectSeq(numbers, IsOdd)), Len(SelectSeq(numbers, IsEven))),
         high_low   |-> Ratio(Len(SelectSeq(numbers, IsLow)), Len(SelectSeq(numbers, IsHigh))),
         sum        |-> Sum(numbers),
         consecutive |-> Len(SelectSeq(Gaps(numbers), IsOne)),
         gaps       |-> Gaps(numbers)]

\* the per-draw body of the loop of analyze_number_patterns
DrawPattern(draw) ==
    LET numbers == Sorted(NumbersOf(draw))
    IN  [odd_even   |-> Ratio(Len(SelectSeq(numbers, IsOdd)), Len(SelectSeq(numbers, IsEven))),
         high_low   |-> Ratio(Len(SelectSeq(numbers, IsLow)), Len(SelectSeq(numbers, IsHigh))),
         sum        |-> Sum(numbers),
         consecutive |-> Len(SelectSeq(Gaps(numbers), IsOne)),
         gaps       |-> Gaps(numbers)]

Eff(draws, r, o, exc) == [draws |-> draws, ret |-> r, out |-> o, raised |-> exc]

\* a fetch that clears recent_draws before the request and so loses the
\* loaded draws when the request fails
fetch_clearing_first(draws, resp) ==
    IF resp.kind \in {"exception", "timeout", "status", "badjson"}
      THEN Eff(<<>>, Bool(FALSE), [msg |-> "error"], FALSE)
    ELSE Eff(Get(resp, "content", <<>>), Bool(TRUE), [msg |-> "none"], FALSE)

fetch_recent_draws(draws, resp) ==
    IF resp.kind \in {"exception", "timeout"}
      THEN \* requests.get raised: caught by 'except Exception'
           Eff(draws, Bool(FALSE), [msg |-> "error"], FALSE)
    ELSE IF resp.kind = "status"
      THEN Eff(draws, Bool(FALSE), [msg |-> "status"], FALSE)
    ELSE IF resp.kind = "badjson"
      THEN \* response.json() raised: caught as well
           Eff(draws, Bool(FALSE), [msg |-> "error"], FALSE)
    ELSE \* status 200 and a JSON object: data.get('content', [])
         Eff(Get(resp, "content", <<>>), Bool(TRUE), [msg |-> "none"], FALSE)

generate_sample_data(draws) ==
    Eff(sample_draws, Bool(TRUE), [msg |-> "sample"], FALSE)

analyze_number_frequency(draws) ==
    IF ~Truthy(draws) THEN Eff(draws, None, [nodata |-> TRUE], FALSE)
    ELSE LET all_numbers   == Flatten(List([i \in 1..Len(draws) |-> NumbersOf(draws[i])]))
             bonus_numbers == Flatten(List([i \in 1..Len(draws) |-> BonusOf(draws[i])]))
         IN  Eff(draws, Tuple(<<Counter(all_numbers), Counter(bonus_numbers)>>),
                 [nodata |-> FALSE], FALSE)

\* the analysis sorting each draw's numbers in place (list.sort())
analyze_number_patterns_in_place(draws) ==
    IF ~Truthy(draws) THEN Eff(draws, None, [nodata |-> FALSE], FALSE)
    ELSE LET P == List([i \in 1..Len(draws) |-> DrawPattern(draws[i])])
         IN  Eff(List([i \in 1..Len(draws) |->
                        IF "winningNumbers" \in DOMAIN draws[i]
                          THEN [draws[i] EXCEPT !.winningNumbers =
                                    [list |-> Sorted(NumbersOf(draws[i]))]]
                          ELSE draws[i]]),
                 [type |-> "dict",
                  odd_even_ratio      |-> List([i \in 1..Len(draws) |-> P[i].odd_even]),
                  high_low_ratio      |-> List([i \in 1..Len(draws) |-> P[i].high_low]),
                  sum_range           |-> List([i \in 1..Len(draws) |-> P[i].sum]),
                  consecutive_numbers |-> List([i \in 1..Len(draws) |-> P[i].consecutive]),
                  number_gaps         |-> List([i \in 1..Len(draws) |-> P[i].gaps])],
                 [nodata |-> FALSE], FALSE)

analyze_number_patterns(draws) ==
    IF ~Truthy(draws) THEN Eff(draws, None, [nodata |-> FALSE], FALSE)
    ELSE LET P == List([i \in 1..Len(draws) |-> DrawPattern(draws[i])])
         IN  Eff(draws,
                 [type |-> "dict",
                  odd_even_ratio      |-> List([i \in 1..Len(draws) |-> P[i].odd_even]),
                  high_low_ratio      |-> List([i \in 1..Len(draws) |-> P[i].high_low]),
                  sum_range           |-> List([i \in 1..Len(draws) |-> P[i].sum]),
                  consecutive_numbers |-> List([i \in 1..Len(draws) |-> P[i].consecutive]),
                  number_gaps         |-> List([i \in 1..Len(draws) |-> P[i].gaps])],
                 [nodata |-> FALSE], FALSE)

find_hot_cold_numbers(draws, main_freq) ==
    IF ~Truthy(main_freq) THEN Eff(draws, None, [nodata |-> FALSE], FALSE)
    ELSE LET sorted_freq == SortByCountDesc(main_freq)
         IN  Eff(draws,
                 Tuple(<< FirstN(sorted_freq, HotColdSize),
                          LastN(sorted_freq, HotColdSize) >>),
                 [nodata |-> FALSE], FALSE)

\* sorted(table.items()): entries by key ascending
SortByKey(t) == StableSort(t, List([i \in 1..Len(t) |-> t[i][1]]))

\* np.mean as the exact ratio <<sum, count>>
Mean(values) == <<Sum(values), Len(values)>>

\* np.median as an exact ratio
Median(values) ==
    LET s == Sorted(values)
        n == Len(s)
    IN  IF n % 2 = 1 THEN <<s[(n + 1) \div 2], 1>>
        ELSE <<s[n \div 2] + s[n \div 2 + 1], 2>>

\* the "draw lines" of the report: id (or position), sorted numbers, bonus
DrawLines(draws) ==
    List([i \in 1..Len(draws) |->
            <<Get(draws[i], "drawId", i), Sorted(NumbersOf(draws[i])), BonusOf(draws[i])>>])

generate_statistics_report(draws) ==
    IF ~Truthy(draws)
      THEN Eff(draws, None, [nodata |-> TRUE, draw_lines |-> <<>>], FALSE)
    ELSE
      LET f == analyze_number_frequency(draws)
      IN  IF UnpackRaises(f.ret)
            THEN Eff(f.draws, None,
                     [nodata |-> FALSE, draw_lines |-> DrawLines(draws)], TRUE)
          ELSE
            LET main_freq  == f.ret.items[1]
                bonus_freq == f.ret.items[2]
                hc == IF Truthy(main_freq) THEN find_hot_cold_numbers(f.draws, main_freq)
                      ELSE Eff(f.draws, Tuple(<< <<>>, <<>> >>), <<>>, FALSE)
            IN  IF UnpackRaises(hc.ret)
                  THEN Eff(hc.draws, None,
                           [nodata |-> FALSE, draw_lines |-> DrawLines(draws)], TRUE)
                ELSE
                  LET p == analyze_number_patterns(hc.draws)
                      sums == p.ret.sum_range
                      s == Sorted(sums)
                  IN  Eff(p.draws, None,
                          [nodata      |-> FALSE,
                           draw_lines  |-> DrawLines(draws),
                           main_table  |-> SortByKey(main_freq),
                           hot         |-> hc.ret.items[1],
                           cold        |-> hc.ret.items[2],
                           bonus_table |-> SortByKey(bonus_freq),
                           patterns    |->
                             IF p.ret = None THEN <<>>
                             ELSE << [odd_even    |-> SortByCountDesc(Counter(p.ret.odd_even_ratio)),
                                      high_low    |-> SortByCountDesc(Counter(p.ret.high_low_ratio)),
                                      sum_min     |-> s[1],
                                      sum_max     |-> s[Len(s)],
                                      sum_mean    |-> Mean(sums),
                                      sum_median  |-> Median(sums),
                                      consecutive |-> SortByKey(Counter(p.ret.consecutive_numbers))] >>],
                          FALSE)

create_visualizations(draws) ==
    IF ~Truthy(draws)
      THEN Eff(draws, None, [nodata |-> TRUE, saved |-> FALSE, panels |-> {}], FALSE)
    ELSE
      LET f == analyze_number_frequency(draws)
      IN  IF UnpackRaises(f.ret)
            THEN Eff(f.draws, None, [nodata |-> FALSE, saved |-> FALSE, panels |-> {}], TRUE)
          ELSE IF ~Truthy(f.ret.items[1])
            THEN Eff(f.draws, None, [nodata |-> FALSE, saved |-> FALSE, panels |-> {}], FALSE)
          ELSE
            LET p == analyze_number_patterns(f.draws)
                has_sums   == IF p.ret = None THEN FALSE ELSE Truthy(p.ret.sum_range)
                has_ratios == IF p.ret = None THEN FALSE ELSE Truthy(p.ret.odd_even_ratio)
            IN  Eff(p.draws, None,
                    [nodata |-> FALSE, saved |-> TRUE,
                     panels |-> {"main_bar"}
                                \cup (IF Truthy(f.ret.items[2]) THEN {"bonus_pie"} ELSE {})
                                \cup (IF has_sums THEN {"sum_line"} ELSE {})
                                \cup (IF has_ratios THEN {"parity_bar"} ELSE {})],
                    FALSE)

\* the suggested range: int(avg_sum - 10), int(avg_sum + 10)
SumRange(avg) ==
    << TruncDiv(avg[1] - SumMargin * avg[2], avg[2]),
       TruncDiv(avg[1] + SumMargin * avg[2], avg[2]) >>

predict_trends(draws) ==
    IF ~Truthy(draws)
      THEN Eff(draws, None,
               [header |-> TRUE, nodata |-> TRUE, advice |-> FALSE, disclaimer |-> FALSE],
               FALSE)
    ELSE
      LET f == analyze_number_frequency(draws)
      IN  IF UnpackRaises(f.ret)
            THEN Eff(f.draws, None,
                     [header |-> TRUE, nodata |-> FALSE, advice |-> FALSE,
                      disclaimer |-> FALSE], TRUE)
          ELSE
            LET main_freq == f.ret.items[1]
                p == analyze_number_patterns(f.draws)
            IN  IF ~Truthy(main_freq) \/ p.ret = None
                  THEN \* "if not main_freq or not patterns: return"
                       Eff(p.draws, None,
                           [header |-> TRUE, nodata |-> FALSE, advice |-> FALSE,
                            disclaimer |-> FALSE], FALSE)
                ELSE
                  LET hc == find_hot_cold_numbers(p.draws, main_freq)
                      avg_sum == Mean(p.ret.sum_range)
                  IN  IF UnpackRaises(hc.ret)
                        THEN Eff(hc.draws, None,
                                 [header |-> TRUE, nodata |-> FALSE, advice |-> FALSE,
                                  disclaimer |-> FALSE], TRUE)
                      ELSE
                        Eff(hc.draws, None,
                            [header |-> TRUE, nodata |-> FALSE, advice |-> TRUE,
                             odd_even |-> MostCommon(Counter(p.ret.odd_even_ratio)),
                             high_low |-> MostCommon(Counter(p.ret.high_low_ratio)),
                             avg_sum  |-> avg_sum,
                             hot      |-> FirstN(hc.ret.items[1], AdviceSize),
                             cold     |-> FirstN(hc.ret.items[2], AdviceSize),
                             range    |-> SumRange(avg_sum),
                             disclaimer |-> TRUE],
                            FALSE)

(***************************************************************************)
(* The state machine                                                       *)
(***************************************************************************)
NoArg == [kind |-> "noarg"]

Init ==
    /\ pc \in {"start", "client"}
    /\ recent_draws = <<>>
    /\ op = "__init__"
    /\ arg = NoArg
    /\ ret = None
    /\ out = [msg |-> "none"]
    /\ raised = FALSE
    /\ fetched = None
    /\ loaded = <<>>

\* a call of method 'name' with argument 'a' and effect 'e'
Apply(name, a, e) ==
    /\ op' = name
    /\ arg' = a
    /\ recent_draws' = e.draws
    /\ ret' = e.ret
    /\ out' = e.out
    /\ raised' = e.raised

\* tables a caller passes to find_hot_cold_numbers: the main table of the
\* loaded draws and its leading parts of up to MaxPart entries
TableArgs(draws) ==
    LET f == analyze_number_frequency(draws).ret
    IN  IF f = None THEN {<<>>}
        ELSE {f.items[1]} \cup {FirstN(f.items[1], k) : k \in 0..MaxPart}

\* ---- a caller using the analyzer object directly ----
CallFetch ==
    /\ pc = "client"
    /\ \E resp \in Responses : Apply("fetch_recent_draws", resp, fetch_recent_draws(recent_draws, resp))
    /\ loaded' = IF ret'.value THEN recent_draws' ELSE loaded
    /\ UNCHANGED <<pc, fetched>>

CallSample ==
    /\ pc = "client"
    /\ Apply("generate_sample_data", NoArg, generate_sample_data(recent_draws))
    /\ loaded' = recent_draws'
    /\ UNCHANGED <<pc, fetched>>

CallFrequency ==
    /\ pc = "client"
    /\ Apply("analyze_number_frequency", NoArg, analyze_number_frequency(recent_draws))
    /\ UNCHANGED <<pc, fetched, loaded>>

\* "main_freq, bonus_freq = analyzer.analyze_number_frequency()"
CallFrequencyUnpack ==
    /\ pc = "client"
    /\ LET e == analyze_number_frequency(recent_draws)
       IN  Apply("unpack_frequency", NoArg, [e EXCEPT !.raised = UnpackRaises(e.ret)])
    /\ UNCHANGED <<pc, fetched, loaded>>

CallPatterns ==
    /\ pc = "client"
    /\ Apply("analyze_number_patterns", NoArg, analyze_number_patterns(recent_draws))
    /\ UNCHANGED <<pc, fetched, loaded>>

CallHotCold ==
    /\ pc = "client"
    /\ \E t \in TableArgs(recent_draws) :
          Apply("find_hot_cold_numbers", [kind |-> "table", main_freq |-> t],
                find_hot_cold_numbers(recent_draws, t))
    /\ UNCHANGED <<pc, fetched, loaded>>

CallReport ==
    /\ pc = "client"
    /\ Apply("generate_statistics_report", NoArg, generate_statistics_report(recent_draws))
    /\ UNCHANGED <<pc, fetched, loaded>>

CallCharts ==
    /\ pc = "client"
    /\ Apply("create_visualizations", NoArg, create_visualizations(recent_draws))
    /\ UNCHANGED <<pc, fetched, loaded>>

CallAdvice ==
    /\ pc = "client"
    /\ Apply("predict_trends", NoArg, predict_trends(recent_draws))
    /\ UNCHANGED <<pc, fetched, loaded>>

\* ---- main() ----
\* an exception leaving a stage ends main
After(next) == IF raised' THEN "crashed" ELSE next

MainFetch ==
    /\ pc = "start"
    /\ \E resp \in Responses : Apply("fetch_recent_draws", resp, fetch_recent_draws(recent_draws, resp))
    /\ fetched' = ret'
    /\ pc' = After(IF fetched'.value THEN "report" ELSE "fallback")
    /\ loaded' = IF ret'.value THEN recent_draws' ELSE loaded

MainFallback ==
    /\ pc = "fallback"
    /\ Apply("generate_sample_data", NoArg, generate_sample_data(recent_draws))
    /\ pc' = After("report")
    /\ loaded' = recent_draws'
    /\ UNCHANGED fetched

MainReport ==
    /\ pc = "report"
    /\ Apply("generate_statistics_report", NoArg, generate_statistics_report(recent_draws))
    /\ pc' = After("charts")
    /\ UNCHANGED <<fetched, loaded>>

MainCharts ==
    /\ pc = "charts"
    /\ Apply("create_visualizations", NoArg, create_visualizations(recent_draws))
    /\ pc' = After("advice")
    /\ UNCHANGED <<fetched, loaded>>

MainAdvice ==
    /\ pc = "advice"
    /\ Apply("predict_trends", NoArg, predict_trends(recent_draws))
    /\ pc' = After("done")
    /\ UNCHANGED <<fetched, loaded>>

Next ==
    \/ CallFetch
    \/ CallSample
    \/ CallFrequency
    \/ CallFrequencyUnpack
    \/ CallPatterns
    \/ CallHotCold
    \/ CallReport
    \/ CallCharts
    \/ CallAdvice
    \/ MainFetch
    \/ MainFallback
    \/ MainReport
    \/ MainCharts
    \/ MainAdvice

Spec == Init /\ [][Next]_vars

(***************************************************************************)
(* Properties                                                              *)
(***************************************************************************)
\* the stages of main() after the data source
Stages == {"report", "charts", "advice", "done"}

\* the places <<i, j>> where v stands in the lists
Places(lists, v) ==
    UNION {{<<i, j>> : j \in {j \in 1..Len(lists[i]) : lists[i][j] = v}} :
            i \in 1..Len(lists)}

\* occurrences of v among the main numbers of all draws, counted directly
Occ(draws, v) ==
    Cardinality(Places([i \in 1..Len(draws) |-> NumbersOf(draws[i])], v))

\* occurrences of v among the bonus numbers of all draws
OccBonus(draws, v) ==
    Cardinality(Places([i \in 1..Len(draws) |-> BonusOf(draws[i])], v))

\* the main numbers that occur in some draw
Drawn(draws) ==
    UNION {{NumbersOf(draws[i])[j] : j \in 1..Len(NumbersOf(draws[i]))} : i \in 1..Len(draws)}

\* the bonus numbers that occur in some draw
DrawnBonus(draws) ==
    UNION {{BonusOf(draws[i])[j] : j \in 1..Len(BonusOf(draws[i]))} : i \in 1..Len(draws)}

\* the elements of a list
Elems(s) == {s[i] : i \in 1..Len(s)}

\* the text of a ratio of two counts below 10
Digits == <<"0", "1", "2", "3", "4", "5", "6", "7", "8", "9">>
RatioText(a, b) == Digits[a + 1] \o ":" \o Digits[b + 1]

\* the draw of the demonstration data used as the worked example, and a
\* draw whose numbers arrive unsorted
ExampleNumbers == <<3, 12, 25, 38, 45>>
UnsortedNumbers == <<26, 4, 3, 45, 25>>

\* C1: fetch_recent_draws never raises; on an exception, a timeout, a
\* non-200 status or an unparsable body it returns False and recent_draws
\* is what was loaded before; it returns True only with recent_draws set to
\* the whole 'content' list.  main calls generate_sample_data exactly when
\* the fetch returned False, before the report stage; the sample is 10
\* draws of 5 main numbers in 1..50 and one bonus number, and the report
\* then prints 10 draw lines.
C1_FetchOrFallback ==
    /\ op = "fetch_recent_draws" =>
          /\ ~raised
          /\ ret \in {Bool(TRUE), Bool(FALSE)}
          /\ arg.kind \in {"exception", "timeout", "status", "badjson"} => ret = Bool(FALSE)
          /\ ret = Bool(FALSE) => recent_draws = loaded
          /\ ret = Bool(TRUE) =>
                /\ arg.kind \in {"ok", "nocontent"}
                /\ recent_draws = (IF arg.kind = "ok" THEN arg.content ELSE <<>>)
    /\ pc = "fallback" => op = "fetch_recent_draws" /\ fetched = Bool(FALSE)
    /\ pc \in Stages /\ fetched = Bool(FALSE) => loaded = sample_draws
    /\ pc \in Stages /\ fetched = Bool(TRUE) => loaded # sample_draws
    /\ op = "generate_sample_data" =>
          /\ ret = Bool(TRUE)
          /\ Len(recent_draws) = 10
          /\ \A i \in 1..10 :
                /\ Len(NumbersOf(recent_draws[i])) = 5
                /\ \A j \in 1..5 : NumbersOf(recent_draws[i])[j] \in 1..50
                /\ Len(BonusOf(recent_draws[i])) = 1
    /\ pc \in Stages /\ fetched = Bool(FALSE) /\ op = "generate_statistics_report" =>
          Len(out.draw_lines) = 10

\* the fallback path of main has printed its report
C1_Witness ==
    /\ pc = "charts"
    /\ fetched = Bool(FALSE)
    /\ op = "generate_statistics_report"
    /\ Len(out.draw_lines) = 10

\* C6 (as claimed): with no draws loaded no analysis method raises, each
\* gives its empty result, and the result of analyze_number_frequency
\* unpacks into a main and a bonus table.
C6_EmptyListNeverThrows ==
    recent_draws = <<>> =>
        /\ op \in {"analyze_number_frequency", "unpack_frequency", "analyze_number_patterns",
                   "find_hot_cold_numbers", "generate_statistics_report",
                   "create_visualizations", "predict_trends"} => ~raised
        /\ op \in {"analyze_number_frequency", "unpack_frequency"} => ~UnpackRaises(ret)
        /\ op \in {"analyze_number_patterns", "find_hot_cold_numbers"} => ret = None
        /\ op \in {"generate_statistics_report", "create_visualizations", "predict_trends"} =>
              out.nodata

\* C7 (as claimed): the report, chart and advice stages of main always run
\* over a non-empty list of draws.
C7_StagesSeeDraws == pc \in Stages => recent_draws # <<>>

\* C9 (as claimed): predict_trends prints the disclaimer exactly when at
\* least one draw is loaded, and the no-data message otherwise.
C9_DisclaimerAlways ==
    op = "predict_trends" =>
        /\ recent_draws # <<>> => out.disclaimer
        /\ recent_draws = <<>> => out.nodata /\ ~out.disclaimer

\* C10 (as claimed): when at least 3 distinct numbers were drawn, the three
\* hot numbers printed by predict_trends have the highest counts and the
\* three cold numbers the lowest.
C10_TopThree ==
    op = "predict_trends" /\ Cardinality(Drawn(recent_draws)) >= 3 =>
        /\ out.advice
        /\ Len(out.hot) = 3 /\ Len(out.cold) = 3
        /\ \A k \in 1..3 :
              /\ out.hot[k][2] = Occ(recent_draws, out.hot[k][1])
              /\ out.cold[k][2] = Occ(recent_draws, out.cold[k][1])
        /\ Cardinality({out.hot[k][1] : k \in 1..3}) = 3
        /\ Cardinality({out.cold[k][1] : k \in 1..3}) = 3
        /\ \A k \in 1..3 : \A v \in Drawn(recent_draws) \ {out.hot[i][1] : i \in 1..3} :
              Occ(recent_draws, v) <= out.hot[k][2]
        /\ \A k \in 1..3 : \A v \in Drawn(recent_draws) \ {out.cold[i][1] : i \in 1..3} :
              Occ(recent_draws, v) >= out.cold[k][2]

\* C2: for N >= 1 loaded draws analyze_number_patterns returns five lists
\* of length N whose k-th entries come from the k-th draw: the parity ratio
\* "odd:even", the magnitude ratio "count<=25 : count>25", the sum, the
\* adjacent differences of the numbers in ascending order and the number of
\* those differences equal to 1.  The draw 3,12,25,38,45 gives "3:2", "3:2",
\* 123, 0 and 9,13,13,7; for a draw of 5 numbers the counts of each ratio
\* add up to 5 and there are 4 differences, none negative.
C2_Patterns ==
    op = "analyze_number_patterns" /\ recent_draws # <<>> =>
        /\ ~raised
        /\ ret.type = "dict"
        /\ Len(ret.odd_even_ratio) = Len(recent_draws)
        /\ Len(ret.high_low_ratio) = Len(recent_draws)
        /\ Len(ret.sum_range) = Len(recent_draws)
        /\ Len(ret.consecutive_numbers) = Len(recent_draws)
        /\ Len(ret.number_gaps) = Len(recent_draws)
        /\ \A k \in 1..Len(recent_draws) :
              LET nums == NumbersOf(recent_draws[k])
                  n    == Len(nums)
                  g    == ret.number_gaps[k]
                  odd  == Cardinality({j \in 1..n : nums[j] % 2 = 1})
                  even == Cardinality({j \in 1..n : nums[j] % 2 = 0})
                  low  == Cardinality({j \in 1..n : nums[j] <= 25})
                  high == Cardinality({j \in 1..n : nums[j] > 25})
                  least == CHOOSE m \in Elems(nums) : \A x \in Elems(nums) : m <= x
                  \* the i-th number in ascending order, rebuilt from the gaps
                  ith(i) == least + Sum(SubSeq(g, 1, i - 1))
              IN  /\ ret.odd_even_ratio[k] = RatioText(odd, even)
                  /\ ret.high_low_ratio[k] = RatioText(low, high)
                  /\ ret.sum_range[k] = Sum(nums)
                  /\ Len(g) = (IF n = 0 THEN 0 ELSE n - 1)
                  /\ \A i \in 1..Len(g) : g[i] >= 0
                  /\ \A v \in Elems(nums) :
                        Cardinality({i \in 1..n : ith(i) = v})
                          = Cardinality({j \in 1..n : nums[j] = v})
                  /\ ret.consecutive_numbers[k] = Cardinality({i \in 1..Len(g) : g[i] = 1})
                  /\ nums = ExampleNumbers =>
                        /\ ret.odd_even_ratio[k] = "3:2"
                        /\ ret.high_low_ratio[k] = "3:2"
                        /\ ret.sum_range[k] = 123
                        /\ ret.consecutive_numbers[k] = 0
                        /\ g = <<9, 13, 13, 7>>
                  /\ n = 5 => odd + even = 5 /\ low + high = 5 /\ Len(g) = 4

\* the patterns of two draws, the second one arriving unsorted
C2_Witness ==
    /\ op = "analyze_number_patterns"
    /\ Len(recent_draws) = 2
    /\ NumbersOf(recent_draws[1]) = ExampleNumbers
    /\ NumbersOf(recent_draws[2]) = UnsortedNumbers
    /\ ret.number_gaps[2] = <<1, 21, 1, 19>>
    /\ ret.consecutive_numbers[2] = 2

\* every draw has 5 main numbers and all draws the same number of bonus
\* numbers
Regular(draws) ==
    /\ draws # <<>>
    /\ \A i \in 1..Len(draws) :
          /\ Len(NumbersOf(draws[i])) = 5
          /\ Len(BonusOf(draws[i])) = Len(BonusOf(draws[1]))

\* C3: for N >= 1 draws of 5 main numbers and b bonus numbers each,
\* analyze_number_frequency returns a main table that gives every drawn
\* number its number of occurrences, with counts adding up to 5*N, and a
\* bonus table built the same way with counts adding up to b*N; a number
\* that was not drawn is in neither table.
C3_Frequency ==
    op = "analyze_number_frequency" /\ Regular(recent_draws) =>
        /\ ~raised
        /\ ret.type = "tuple" /\ Len(ret.items) = 2
        /\ LET main_freq  == ret.items[1]
               bonus_freq == ret.items[2]
           IN  /\ \A k \in 1..Len(main_freq) :
                     main_freq[k][2] = Occ(recent_draws, main_freq[k][1])
               /\ {main_freq[k][1] : k \in 1..Len(main_freq)} = Drawn(recent_draws)
               /\ Cardinality(Drawn(recent_draws)) = Len(main_freq)
               /\ Sum(List([k \in 1..Len(main_freq) |-> main_freq[k][2]]))
                     = 5 * Len(recent_draws)
               /\ \A k \in 1..Len(bonus_freq) :
                     bonus_freq[k][2] = OccBonus(recent_draws, bonus_freq[k][1])
               /\ {bonus_freq[k][1] : k \in 1..Len(bonus_freq)} = DrawnBonus(recent_draws)
               /\ Cardinality(DrawnBonus(recent_draws)) = Len(bonus_freq)
               /\ Sum(List([k \in 1..Len(bonus_freq) |-> bonus_freq[k][2]]))
                     = Len(BonusOf(recent_draws[1])) * Len(recent_draws)

\* the tables of two draws that share numbers
C3_Witness ==
    /\ op = "analyze_number_frequency"
    /\ Regular(recent_draws)
    /\ Len(recent_draws) = 2
    /\ \E k \in 1..Len(ret.items[1]) : ret.items[1][k][2] = 2
    /\ \E k \in 1..Len(ret.items[1]) : ret.items[1][k][2] = 1

\* in the list t, entry e comes before entry f when ordered by count
\* descending, entries of equal count staying in the order of t
Before(t, e, f) ==
    LET pos(x) == CHOOSE i \in 1..Len(t) : t[i] = x
    IN  \/ e[2] > f[2]
        \/ e[2] = f[2] /\ pos(e) < pos(f)

\* find_hot_cold_numbers returns None on an empty table and otherwise
\* (hot, cold), the first 5 and the last 5 entries of the table ordered by
\* count descending (equal counts in table order); with 10 or more numbers
\* hot and cold are disjoint, with fewer than 5 both hold every entry (a
\* single number occurring once is in both)
HotColdAreEnds ==
    op = "find_hot_cold_numbers" =>
        LET t == arg.main_freq
            n == Len(t)
            m == IF n < 5 THEN n ELSE 5
        IN  /\ ~raised
            /\ n = 0 => ret = None
            /\ n > 0 =>
                  /\ ret.type = "tuple" /\ Len(ret.items) = 2
                  /\ LET hot  == ret.items[1]
                         cold == ret.items[2]
                     IN  /\ Len(hot) = m /\ Len(cold) = m
                         /\ Elems(hot) \subseteq Elems(t)
                         /\ Elems(cold) \subseteq Elems(t)
                         /\ \A k \in 1..m : \A l \in (k + 1)..m :
                               Before(t, hot[k], hot[l]) /\ Before(t, cold[k], cold[l])
                         /\ \A e \in Elems(t) \ Elems(hot) : \A k \in 1..m :
                               Before(t, hot[k], e)
                         /\ \A e \in Elems(t) \ Elems(cold) : \A k \in 1..m :
                               Before(t, e, cold[k])
                         /\ n >= 10 => Elems(hot) \cap Elems(cold) = {}
                         /\ n < 5 => Elems(hot) = Elems(t) /\ Elems(cold) = Elems(t)
                         /\ n = 1 /\ t[1][2] = 1 => hot = t /\ cold = t

\* every count in hot is >= every count in cold
HotCountsAboveCold ==
    LET hot  == ret.items[1]
        cold == ret.items[2]
    IN  \A k \in 1..Len(hot) : \A l \in 1..Len(cold) : hot[k][2] >= cold[l][2]

\* C4 (as claimed): hot and cold are the two ends of the table ordered by
\* count, and on every non-empty table every count in hot is >= every
\* count in cold.
C4_HotAboveColdAlways ==
    /\ HotColdAreEnds
    /\ op = "find_hot_cold_numbers" /\ Len(arg.main_freq) > 0 => HotCountsAboveCold

\* C4 (amended): hot and cold are the two ends of the table ordered by
\* count; on a table of 10 or more numbers every count in hot is >= every
\* count in cold, and on every non-empty table the k-th count in hot is >=
\* the k-th count in cold.
C4_HotAboveColdFrom10 ==
    /\ HotColdAreEnds
    /\ op = "find_hot_cold_numbers" /\ Len(arg.main_freq) >= 10 => HotCountsAboveCold
    /\ op = "find_hot_cold_numbers" /\ Len(arg.main_freq) > 0 =>
          \A k \in 1..Len(ret.items[1]) : ret.items[1][k][2] >= ret.items[2][k][2]

\* hot and cold numbers of a table of 10 or more numbers of unequal counts
C4_Witness ==
    /\ op = "find_hot_cold_numbers"
    /\ Len(arg.main_freq) >= 10
    /\ ret.items[1][1][2] > ret.items[2][1][2]

\* the tables of the demonstration data
SampleMainTable == <<
    <<3, 1>>, <<12, 1>>, <<25, 2>>, <<38, 2>>, <<45, 1>>, <<8, 1>>, <<19, 2>>,
    <<27, 1>>, <<33, 2>>, <<41, 2>>, <<5, 1>>, <<16, 1>>, <<22, 1>>, <<35, 1>>,
    <<44, 1>>, <<11, 1>>, <<18, 1>>, <<29, 1>>, <<36, 1>>, <<42, 1>>, <<2, 1>>,
    <<14, 1>>, <<23, 1>>, <<31, 1>>, <<39, 1>>, <<7, 1>>, <<17, 1>>, <<26, 1>>,
    <<34, 1>>, <<43, 1>>, <<9, 1>>, <<20, 1>>, <<28, 1>>, <<37, 1>>, <<46, 1>>,
    <<4, 1>>, <<13, 1>>, <<21, 1>>, <<32, 1>>, <<40, 1>>, <<6, 1>>, <<15, 1>>,
    <<24, 1>>, <<30, 1>>, <<10, 1>> >>

SampleBonusTable == <<
    <<7, 1>>, <<12, 1>>, <<9, 1>>, <<6, 1>>, <<15, 1>>, <<11, 1>>, <<4, 1>>,
    <<8, 1>>, <<13, 1>>, <<5, 1>> >>

\* C5: no analysis, report, chart or advice operation changes recent_draws
\* or a draw in it: in whatever order they are called, recent_draws is what
\* the data source stored, so analyze_number_frequency and
\* analyze_number_patterns return what they return on the draws as stored;
\* on the demonstration data analyze_number_frequency always returns the
\* same two tables.
C5_DrawsReadOnly ==
    /\ recent_draws = loaded
    /\ op = "analyze_number_frequency" =>
          /\ ret = analyze_number_frequency(loaded).ret
          /\ loaded = sample_draws => ret = Tuple(<<SampleMainTable, SampleBonusTable>>)
    /\ op = "analyze_number_patterns" => ret = analyze_number_patterns(loaded).ret

\* the patterns of draws among which one arrived unsorted have been
\* computed, and the draw still is as it arrived
C5_Witness ==
    /\ pc = "client"
    /\ op = "analyze_number_patterns"
    /\ \E k \in 1..Len(recent_draws) : NumbersOf(recent_draws[k]) = UnsortedNumbers

\* what predict_trends prints as the range is the mean of the sums of the
\* draws minus and plus 10, each truncated towards zero, and brackets the
\* mean
RangeIsMeanPlusMinus10 ==
    op = "predict_trends" /\ out.advice =>
        LET S  == Sum(Flatten(List([i \in 1..Len(recent_draws) |-> NumbersOf(recent_draws[i])])))
            n  == Len(recent_draws)
            lo == out.range[1]
            hi == out.range[2]
        IN  /\ out.avg_sum = <<S, n>>
            /\ IF S - 10 * n >= 0
                 THEN lo * n <= S - 10 * n /\ S - 10 * n < (lo + 1) * n
                 ELSE (lo - 1) * n < S - 10 * n /\ S - 10 * n <= lo * n
            /\ hi * n <= S + 10 * n /\ S + 10 * n < (hi + 1) * n
            /\ lo * n <= S /\ S <= hi * n

\* main() has finished on the fallback path
FallbackRunDone == pc = "done" /\ fetched = Bool(FALSE)

\* C8 (as claimed): the range is mean-10 to mean+10 truncated; in the run
\* where the fetch fails the mean is about 368 and the range about 358 to
\* 378.
C8_RangeAbout368 ==
    /\ RangeIsMeanPlusMinus10
    /\ FallbackRunDone =>
          /\ out.advice
          /\ 367 * out.avg_sum[2] <= out.avg_sum[1]
          /\ out.avg_sum[1] <= 369 * out.avg_sum[2]
          /\ out.range[1] \in 357..359
          /\ out.range[2] \in 377..379

\* C8 (amended): the range is mean-10 to mean+10 truncated; in the run
\* where the fetch fails the mean is 123.6 and the range 113 to 133.
C8_RangeOfSample ==
    /\ RangeIsMeanPlusMinus10
    /\ FallbackRunDone =>
          /\ out.advice
          /\ out.avg_sum = <<1236, 10>>
          /\ out.range = <<113, 133>>

\* the advice of the fallback run
C8_Witness == FallbackRunDone /\ out.advice /\ out.range = <<113, 133>>
====
